---- MODULE Spec2Model ----
(***************************************************************************)
(* svg-calendar: calendar_svg.py.  One invocation of the command line tool *)
(* loads an event table and a decoration (emoji) table, derives one square *)
(* cell size, emits the rectangles / texts / lines of one month or of the  *)
(* twelve months of a year and serialises them.                            *)
(*                                                                         *)
(* A Python str is modelled as a sequence of characters, a character as a  *)
(* one-element TLA+ string; characters outside ASCII carry their code      *)
(* point as name ("u00F0").  A raised Python exception is the status the   *)
(* run ends with.                                                          *)
(***************************************************************************)
EXTENDS Integers, Sequences, FiniteSets, TLC

VARIABLES
    annual,          \* args.annual
    year,            \* args.year
    month,           \* args.month (single-month mode)
    arg_start_day,   \* args.start_day
    start_day,       \* start_day, the local of the generating function
    show_day_names,  \* args.show_day_names
    overwrite,       \* args.overwrite
    outFile,         \* the output file on disk: "absent", "old", "new"
    response,        \* what the user typed at the overwrite prompt
    eventsFile,      \* the event table on disk: "missing", "nocols", "ok"
    rows,            \* the records of the event table, in file order
    emojiFile,       \* the decoration table: "missing", "nocols", "ok"
    pc,              \* position of the run
    error,           \* the exception that ended the run, "" when none
    month_days,      \* WeekMatrix (single-month mode)
    all_events,      \* month -> day -> titles, the loaded Event Index
    cell,            \* the computed cell size (cell_width = cell_height)
    canvas,          \* size of the Drawing: <<width, height>>
    prims            \* the primitives added to the Drawing, in order

vars == <<annual, year, month, arg_start_day, start_day, show_day_names, overwrite, outFile,
          response, eventsFile, rows, emojiFile, pc, error, month_days,
          all_events, cell, canvas, prims>>

----------------------------------------------------------------------------
(* Strings *)

\* Python's None where a str is expected: no str is this sequence, since
\* "None" is not a character.
None == <<"None">>

\* str(None) as an f-string formats it
NoneText == <<"N", "o", "n", "e">>

UpperChars == <<"A", "B", "C", "D", "E", "F", "G", "H", "I", "J", "K", "L", "M",
                "N", "O", "P", "Q", "R", "S", "T", "U", "V", "W", "X", "Y", "Z">>
LowerChars == <<"a", "b", "c", "d", "e", "f", "g", "h", "i", "j", "k", "l", "m",
                "n", "o", "p", "q", "r", "s", "t", "u", "v", "w", "x", "y", "z">>
DigitChars == <<"0", "1", "2", "3", "4", "5", "6", "7", "8", "9">>

Whitespace == {" ", "\t"}

\* str.lower() on one character
LowerChar(c) ==
    IF \E i \in 1..Len(UpperChars) : UpperChars[i] = c
    THEN LowerChars[CHOOSE i \in 1..Len(UpperChars) : UpperChars[i] = c]
    ELSE c

\* str.lower()
Lower(s) == [i \in 1..Len(s) |-> LowerChar(s[i])]

\* str.strip()
Strip(s) ==
    IF s = <<>> \/ (s[1] \notin Whitespace /\ s[Len(s)] \notin Whitespace) THEN s
    ELSE LET keep == {i \in 1..Len(s) : s[i] \notin Whitespace}
         IN  IF keep = {} THEN <<>>
             ELSE LET lo == CHOOSE i \in keep : \A j \in keep : i <= j
                      hi == CHOOSE i \in keep : \A j \in keep : j <= i
                  IN  SubSeq(s, lo, hi)

\* str.startswith(p)
StartsWith(s, p) == Len(s) >= Len(p) /\ SubSeq(s, 1, Len(p)) = p

IsDigit(c) == \E i \in 1..Len(DigitChars) : DigitChars[i] = c
DigitVal(c) == (CHOOSE i \in 1..Len(DigitChars) : DigitChars[i] = c) - 1

RECURSIVE DigitsVal(_)
DigitsVal(s) ==
    IF s = <<>> THEN 0
    ELSE 10 * DigitsVal(SubSeq(s, 1, Len(s) - 1)) + DigitVal(s[Len(s)])

\* int(s) for a str s: surrounding whitespace is ignored, then decimal digits.
\* IntOk is FALSE where int raises ValueError.
IntOk(s) == LET t == Strip(s) IN t # <<>> /\ \A i \in 1..Len(t) : IsDigit(t[i])
IntVal(s) == DigitsVal(Strip(s))

\* str(n) for n >= 0
RECURSIVE Str(_)
Str(n) ==
    IF n < 10 THEN <<DigitChars[n + 1]>>
    ELSE Str(n \div 10) \o <<DigitChars[(n % 10) + 1]>>

SetMax(S) == CHOOSE x \in S : \A y \in S : y <= x
Max2(a, b) == IF a >= b THEN a ELSE b

----------------------------------------------------------------------------
(* The hard-coded decorative prefixes, as the source file holds them *)

CAKE == <<"u00F0", "u0178", "u017D", "u201A">>
BEGINNER == <<"u00F0", "u0178", "u201D", "u00B0">>
GRADUATION == <<"u00F0", "u0178", "u017D", "u201C">>
TESTTUBE == <<"u00F0", "u0178", "u00A7", "u00AA">>

KnownPrefixes == {CAKE, BEGINNER, GRADUATION, TESTTUBE}

\* event.startswith(...) or event.startswith(...) or ...
HasKnownPrefix(event) == \E p \in KnownPrefixes : StartsWith(event, p)

\* char in "<the four prefixes concatenated>"
WideChars == {p[i] : p \in KnownPrefixes, i \in 1..4}

----------------------------------------------------------------------------
(* calendar.Calendar(firstweekday).monthdayscalendar(year, month) *)

IsLeap(y) == y % 4 = 0 /\ (y % 100 # 0 \/ y % 400 = 0)

DaysInMonth(y, m) ==
    IF m = 2 THEN (IF IsLeap(y) THEN 29 ELSE 28)
    ELSE IF m \in {4, 6, 9, 11} THEN 30 ELSE 31

RECURSIVE DaysBeforeMonth(_, _)
DaysBeforeMonth(y, m) ==
    IF m = 1 THEN 0 ELSE DaysBeforeMonth(y, m - 1) + DaysInMonth(y, m - 1)

\* datetime.date(y, m, d).toordinal()
Ordinal(y, m, d) ==
    LET p == y - 1
    IN  p * 365 + p \div 4 - p \div 100 + p \div 400 + DaysBeforeMonth(y, m) + d

\* datetime.date(y, m, d).weekday(): 0 = Monday .. 6 = Sunday
Weekday(y, m, d) == (Ordinal(y, m, d) + 6) % 7

MonthDaysCalendar(y, m, firstweekday) ==
    LET off == (Weekday(y, m, 1) - firstweekday) % 7
        n == DaysInMonth(y, m)
        nweeks == (off + n + 6) \div 7
    IN  [w \in 1..nweeks |->
            [i \in 1..7 |->
                LET d == (w - 1) * 7 + i - off
                IN  IF d >= 1 /\ d <= n THEN d ELSE 0]]

----------------------------------------------------------------------------
(* load_csv, load_emoji_map, validate_event_date, load_events *)

\* load_csv: the records of a table file; a missing file is an empty table.
\* The KeyError of a table without the required columns is LoadCsvError.
LoadCsv(file, records) == IF file = "ok" THEN records ELSE <<>>
LoadCsvError(file) == IF file = "nocols" THEN "KeyError" ELSE ""

EmptyMap == [k \in {} |-> <<>>]

\* dict.get(key, default)
Get(map, key, default) == IF key \in DOMAIN map THEN map[key] ELSE default

\* load_emoji_map: emoji_map[type.strip().lower()] = emoji.strip(), row by row
RECURSIVE EmojiMapFrom(_, _)
EmojiMapFrom(table, k) ==
    IF k = 0 THEN EmptyMap
    ELSE (Lower(Strip(table[k].type)) :> Strip(table[k].emoji))
             @@ EmojiMapFrom(table, k - 1)

load_emoji_map(table) == EmojiMapFrom(table, Len(table))

\* validate_event_date: datetime.date(2000, month, day) does not raise
validate_event_date(m, d) ==
    /\ m >= 1 /\ m <= 12
    /\ d >= 1 /\ d <= DaysInMonth(2000, m)

\* a slip: events[event_day] = [event_title], the day's earlier events lost
AppendEventReplacing(events, d, title) == (d :> <<title>>) @@ events

\* events[event_day].append(event_title) on a defaultdict(list)
AppendEvent(events, d, title) == (d :> Append(Get(events, d, <<>>), title)) @@ events

\* f"{emoji} {row['title']}" if emoji else row["title"]
EventTitle(emoji, title) ==
    IF emoji # <<>>
    THEN emoji \o <<" ">> \o (IF title = None THEN NoneText ELSE title)
    ELSE title

\* The loop of load_events from record i on.  int(None) raises TypeError and
\* None.strip() raises AttributeError; neither is caught by
\* "except (ValueError, KeyError)", so they end the load.
RECURSIVE LoadFrom(_, _, _, _, _)
LoadFrom(rs, i, m, emoji_map, events) ==
    IF i > Len(rs) THEN [error |-> "", events |-> events]
    ELSE LET row == rs[i]
             skip == LoadFrom(rs, i + 1, m, emoji_map, events)
             event_month == IntVal(row.month)
             event_day == IntVal(row.day)
         IN  IF row.month = None THEN [error |-> "TypeError", events |-> events]
             ELSE IF ~IntOk(row.month) THEN skip
             ELSE IF row.day = None THEN [error |-> "TypeError", events |-> events]
             ELSE IF ~IntOk(row.day) THEN skip
             ELSE IF ~validate_event_date(event_month, event_day) THEN skip
             ELSE IF event_month # m THEN skip
             ELSE IF row.type = None
                  THEN [error |-> "AttributeError", events |-> events]
             ELSE LET event_type == Lower(Strip(row.type))
                      emoji == Get(emoji_map, event_type, <<>>)
                      event_title == EventTitle(emoji, row.title)
                  IN  LoadFrom(rs, i + 1, m, emoji_map,
                               AppendEvent(events, event_day, event_title))

\* load_events(year, month, events_file, emoji_file): the emoji table is read
\* first, then the event table.  The year takes no part.
load_events(m, evFile, evRows, emFile, emRows) ==
    IF LoadCsvError(emFile) # "" THEN [error |-> LoadCsvError(emFile), events |-> EmptyMap]
    ELSE IF LoadCsvError(evFile) # "" THEN [error |-> LoadCsvError(evFile), events |-> EmptyMap]
    ELSE LoadFrom(LoadCsv(evFile, evRows), 1, m,
                  load_emoji_map(LoadCsv(emFile, emRows)), EmptyMap)

----------------------------------------------------------------------------
(* The Metrics Calculator *)

BASE_CELL == 100
BASE_PADDING == 20
LINE_HEIGHT == 20
AVG_GLYPH_WIDTH == 8

\* all the titles of an index
AllTitles(events) ==
    UNION {{events[d][k] : k \in 1..Len(events[d])} : d \in DOMAIN events}

\* max(len(events[day]) for day in events) if events else 0
MaxEventLines(events) ==
    IF DOMAIN events = {} THEN 0 ELSE SetMax({Len(events[d]) : d \in DOMAIN events})

\* generate_calendar_svg: len(event) + 2 for a title with a known prefix
MonthTitleLength(event) == IF HasKnownPrefix(event) THEN Len(event) + 2 ELSE Len(event)

MaxEventLengthSingle(events) ==
    IF DOMAIN events = {} THEN 0
    ELSE SetMax({MonthTitleLength(e) : e \in AllTitles(events)})

\* generate_annual_calendar_svg: len(event), default 0
MaxEventLengthAnnual(events) ==
    IF AllTitles(events) = {} THEN 0 ELSE SetMax({Len(e) : e \in AllTitles(events)})

\* max(max(100, 20 + lines * 20), max(100, 20 + length * 8)), width first
LargestCellSize(max_event_lines, max_event_length) ==
    LET largest_cell_height == Max2(BASE_CELL, BASE_PADDING + max_event_lines * LINE_HEIGHT)
        largest_cell_width == Max2(BASE_CELL, BASE_PADDING + max_event_length * AVG_GLYPH_WIDTH)
    IN  Max2(largest_cell_width, largest_cell_height)

\* a None title has neither startswith nor len
MetricsErrorSingle(events) == IF None \in AllTitles(events) THEN "AttributeError" ELSE ""
MetricsErrorAnnual(all) ==
    IF \E m \in DOMAIN all : None \in AllTitles(all[m]) THEN "TypeError" ELSE ""

\* generate_calendar_svg, the cell size of one month
SingleCellSize(events) ==
    LargestCellSize(MaxEventLines(events), MaxEventLengthSingle(events))

\* generate_annual_calendar_svg, the cell size of the year: the running
\* maxima over months 1..12
AnnualCellSize(all) ==
    LargestCellSize(SetMax({0} \cup {MaxEventLines(all[m]) : m \in DOMAIN all}),
                    SetMax({0} \cup {MaxEventLengthAnnual(all[m]) : m \in DOMAIN all}))

----------------------------------------------------------------------------
(* The Drawing's primitives.  One record shape serves Rect, Text and Line: *)
(* x, y is the insert point (a Line's start), w, h the size (a Line's      *)
(* extent), size the font size.  month, day, col and role record which     *)
(* statement of which loop iteration added the primitive.                  *)

Rect(m, day, col, x, y, w, h, fill) ==
    [role |-> "rect", month |-> m, day |-> day, col |-> col, text |-> <<>>,
     x |-> x, y |-> y, w |-> w, h |-> h, fill |-> fill, size |-> 0]

\* add_text
Text(role, m, day, col, text, x, y, size, fill) ==
    [role |-> role, month |-> m, day |-> day, col |-> col, text |-> text,
     x |-> x, y |-> y, w |-> 0, h |-> 0, fill |-> fill, size |-> size]

Line(m, x1, y1, x2, y2) ==
    [role |-> "line", month |-> m, day |-> 0, col |-> 0, text |-> <<>>,
     x |-> x1, y |-> y1, w |-> x2 - x1, h |-> y2 - y1, fill |-> "black", size |-> 0]

RECURSIVE Flatten(_)
Flatten(ss) ==
    IF Len(ss) = 0 THEN <<>>
    ELSE Flatten(SubSeq(ss, 1, Len(ss) - 1)) \o ss[Len(ss)]

\* calendar.month_name
month_name ==
    << <<"J","a","n","u","a","r","y">>, <<"F","e","b","r","u","a","r","y">>,
       <<"M","a","r","c","h">>, <<"A","p","r","i","l">>, <<"M","a","y">>,
       <<"J","u","n","e">>, <<"J","u","l","y">>, <<"A","u","g","u","s","t">>,
       <<"S","e","p","t","e","m","b","e","r">>, <<"O","c","t","o","b","e","r">>,
       <<"N","o","v","e","m","b","e","r">>, <<"D","e","c","e","m","b","e","r">> >>

\* days = ['Mo', 'Tu', 'We', 'Th', 'Fr', 'Sa', 'Su']
DayNames ==
    << <<"M","o">>, <<"T","u">>, <<"W","e">>, <<"T","h">>, <<"F","r">>,
       <<"S","a">>, <<"S","u">> >>

\* f"{month_name} {year}"
MonthTitle(y, m) == month_name[m] \o <<" ">> \o Str(y)

\* event.split(" ", 1): SplitOk is FALSE where the unpacking into
\* (emoji, title) raises ValueError, the event holding no space
SplitOk(event) == \E i \in 1..Len(event) : event[i] = " "
FirstSpace(event) ==
    CHOOSE i \in 1..Len(event) :
        event[i] = " " /\ \A j \in 1..(i - 1) : event[j] # " "
SplitHead(event) == SubSeq(event, 1, FirstSpace(event) - 1)
SplitTail(event) == SubSeq(event, FirstSpace(event) + 1, Len(event))

----------------------------------------------------------------------------
(* Single-month mode: the svg_settings and add_month_and_year,             *)
(* add_day_headers, add_calendar_grid                                      *)

PADDING == 20
HEADER_FONT_SIZE == 40
LINE_SPACING == 20
DAY_FONT_SIZE == 24
EVENT_FONT_SIZE == 16
EVENT_ROW_SINGLE == 25

SingleWidth(c) == c * 7 + PADDING * 2
SingleHeight(c, weeks, show) == c * (weeks + (IF show THEN 2 ELSE 1)) + PADDING * 2

add_month_and_year(y, m, c) ==
    << Text("monthname", m, 0, 0, MonthTitle(y, m),
            SingleWidth(c) \div 2, PADDING + HEADER_FONT_SIZE, HEADER_FONT_SIZE, "#46c2f2") >>

\* y_offset returned by add_month_and_year
TitleBottom == PADDING + HEADER_FONT_SIZE + LINE_SPACING

\* days[start_day:] + days[:start_day]
RotatedDayNames(sd) ==
    IF sd # 0 THEN SubSeq(DayNames, sd + 1, 7) \o SubSeq(DayNames, 1, sd) ELSE DayNames

add_day_headers(m, sd, y_offset, c) ==
    [i \in 1..7 |->
        Text("header", m, 0, i - 1, RotatedDayNames(sd)[i],
             (i - 1) * c + c \div 2 + PADDING, y_offset, DAY_FONT_SIZE, "black")]
    \o << Line(m, PADDING, y_offset + DAY_FONT_SIZE - 10,
               SingleWidth(c) - PADDING, y_offset + DAY_FONT_SIZE - 10) >>

\* y_offset returned by add_day_headers
HeaderBottom(y_offset) == y_offset + DAY_FONT_SIZE - 10 + LINE_SPACING

\* sum(2 if char in "..." else 1 for char in event) * (event_font_size // 2)
EventWidth(event) ==
    (Len(event) + Cardinality({i \in 1..Len(event) : event[i] \in WideChars}))
        * (EVENT_FONT_SIZE \div 2)

\* dynamic_cell_width of one day
DynamicCellWidth(evs, c) ==
    Max2(c, SetMax({0} \cup {EventWidth(evs[k]) : k \in 1..Len(evs)}) + 20)

\* the texts of the k-th event of a day
EventTextsSingle(m, day, col, event, x, event_y) ==
    IF HasKnownPrefix(event)
    THEN << Text("emoji", m, day, col, SplitHead(event), x + 10, event_y,
                 EVENT_FONT_SIZE, "black"),
            Text("title", m, day, col, SplitTail(event), x + 30, event_y,
                 EVENT_FONT_SIZE, "black") >>
    ELSE << Text("title", m, day, col, event, x + 30, event_y,
                 EVENT_FONT_SIZE, "black") >>

\* one iteration of the inner loop of add_calendar_grid, i the column
DayCellSingle(m, day, i, y, c, sd, events) ==
    LET x == i * c + PADDING
        evs == Get(events, day, <<>>)
        background_color == IF (i + sd) % 7 = 6 THEN "orange" ELSE "lightblue"
    IN  << Rect(m, day, i, x + 5, y + 5, DynamicCellWidth(evs, c) - 10, c - 10,
                background_color),
           Text("daynum", m, day, i, Str(day), x + 10, y + 30, DAY_FONT_SIZE, "black") >>
        \o Flatten([k \in 1..Len(evs) |->
                      EventTextsSingle(m, day, i, evs[k], x, y + 50 + EVENT_ROW_SINGLE * (k - 1))])

add_calendar_grid(m, days, sd, y_offset, c, events) ==
    Flatten([w \in 1..Len(days) |->
        Flatten([i \in 1..7 |->
            IF days[w][i] = 0 THEN <<>>
            ELSE DayCellSingle(m, days[w][i], i - 1, y_offset + (w - 1) * c, c, sd, events)])])

\* the ValueError of "emoji, title = event.split(" ", 1)" on a rendered day
GridErrorSingle(days, events) ==
    IF \E w \in 1..Len(days), i \in 1..7 :
          /\ days[w][i] # 0
          /\ \E k \in 1..Len(Get(events, days[w][i], <<>>)) :
                LET event == events[days[w][i]][k]
                IN  HasKnownPrefix(event) /\ ~SplitOk(event)
    THEN "ValueError" ELSE ""

\* generate_calendar_svg from "dwg = Drawing(...)" to the call of add_calendar_grid
RenderSingle(y, m, days, sd, show, c, events) ==
    add_month_and_year(y, m, c)
    \o (IF show THEN add_day_headers(m, sd, TitleBottom, c) ELSE <<>>)
    \o add_calendar_grid(m, days, sd,
                         IF show THEN HeaderBottom(TitleBottom) ELSE TitleBottom, c, events)

----------------------------------------------------------------------------
(* Annual mode: generate_annual_calendar_svg, add_month_to_annual_calendar *)

MONTHS_PER_ROW == 3
HORIZONTAL_SPACING == 10
MONTH_ROWS == 4
WEEK_ROWS == 6
HEADER_ALLOWANCE == 100
ANNUAL_START_DAY == 6
EVENT_ROW_ANNUAL == 20

MaxMonthWidth(c) == c * 7

\* a slip: five week rows reserved per tile
MaxMonthHeightFiveRows(c) == c * 5 + HEADER_ALLOWANCE

MaxMonthHeight(c) == c * WEEK_ROWS + HEADER_ALLOWANCE
SvgWidth(c) ==
    MaxMonthWidth(c) * MONTHS_PER_ROW + PADDING * 2
        + HORIZONTAL_SPACING * (MONTHS_PER_ROW - 1)
SvgHeight(c) == MaxMonthHeight(c) * MONTH_ROWS + PADDING * 2

XOffset(m, c) == ((m - 1) % MONTHS_PER_ROW) * (MaxMonthWidth(c) + HORIZONTAL_SPACING) + PADDING
YOffset(m, c) == ((m - 1) \div MONTHS_PER_ROW) * MaxMonthHeight(c) + PADDING

\* the weekday labels of a tile: days is not rotated
AnnualDayHeaders(m, x_offset, y_offset, c) ==
    [i \in 1..7 |->
        Text("header", m, 0, i - 1, DayNames[i],
             x_offset + (i - 1) * c + c \div 2, y_offset + 80, 16, "black")]

\* one iteration of the inner loop of add_month_to_annual_calendar
DayCellAnnual(m, day, i, x_offset, y, c, events) ==
    LET x == x_offset + i * c
        evs == Get(events, day, <<>>)
        background_color == IF (i + 6) % 7 = 6 THEN "orange" ELSE "lightblue"
    IN  << Rect(m, day, i, x + 5, y + 5, c - 10, c - 10, background_color),
           Text("daynum", m, day, i, Str(day), x + 10, y + 25, 14, "black") >>
        \o [k \in 1..Len(evs) |->
              Text("title", m, day, i, evs[k], x + 10,
                   y + 40 + EVENT_ROW_ANNUAL * (k - 1), 12, "black")]

add_month_to_annual_calendar(y, m, x_offset, y_offset, width, show, c, events) ==
    LET days == MonthDaysCalendar(y, m, 6)
    IN  << Text("monthname", m, 0, 0, MonthTitle(y, m),
                x_offset + width \div 2, y_offset + 50, 36, "#46c2f2") >>
        \o (IF show THEN AnnualDayHeaders(m, x_offset, y_offset, c) ELSE <<>>)
        \o Flatten([w \in 1..Len(days) |->
              Flatten([i \in 1..7 |->
                  IF days[w][i] = 0 THEN <<>>
                  ELSE DayCellAnnual(m, days[w][i], i - 1, x_offset,
                                     y_offset + HEADER_ALLOWANCE + (w - 1) * c, c, events)])])

\* the loop "for month in range(1, 13)" of generate_annual_calendar_svg
RenderAnnual(y, show, c, all) ==
    Flatten([m \in 1..12 |->
        add_month_to_annual_calendar(y, m, XOffset(m, c), YOffset(m, c),
                                     MaxMonthWidth(c), show, c, all[m])])

----------------------------------------------------------------------------
(* The inputs: records of the event table, the decoration table, the years *)

TeamMeeting == <<"T","e","a","m"," ","M","e","e","t","i","n","g">>
AnnaBday == <<"A","n","n","a"," ","B","d","a","y">>
Gym == <<"G","y","m">>
QuarterlyReview == <<"Q","u","a","r","t","e","r","l","y"," ","R","e","v","i","e","w">>
CakeParty == CAKE \o <<"P","a","r","t","y">>

CALENDAR_EMOJI == <<"U1F4C5">>

\* type,emoji records of emoji.csv
EmojiTable ==
    << [type |-> <<"W","o","r","k">>, emoji |-> CALENDAR_EMOJI],
       [type |-> <<"b","i","r","t","h","d","a","y"," ">>, emoji |-> <<" ">> \o CAKE] >>

TypeWork == <<" ","W","O","R","K">>
TypeBirthday == <<"B","i","r","t","h","d","a","y">>
TypeMisc == <<"m","i","s","c">>

Row(m, d, title, type) == [month |-> m, day |-> d, title |-> title, type |-> type]

RowMeeting == Row(<<"2">>, <<"1","5">>, TeamMeeting, TypeWork)
RowBirthday == Row(<<"2">>, <<"1","5">>, AnnaBday, TypeBirthday)
RowGym == Row(<<"0","2">>, <<"1","5">>, Gym, TypeMisc)
RowReview == Row(<<"3">>, <<"1">>, QuarterlyReview, TypeMisc)
\* an impossible day, a month that is no number
RowBadDay == Row(<<"2">>, <<"3","0">>, TeamMeeting, TypeMisc)
RowBadMonth == Row(<<"x">>, <<"1","5">>, TeamMeeting, TypeMisc)
\* short rows: csv.DictReader gives None for the values a row lacks
RowShort == Row(<<"2">>, None, None, None)
RowNoTitle == Row(<<"2">>, <<"1","5">>, None, TypeMisc)
\* a title that begins with a known prefix and holds no space
RowCakeParty == Row(<<"2">>, <<"1","5">>, CakeParty, TypeMisc)

\* February 29, a date of leap years only
RowLeap == Row(<<"2">>, <<"2","9">>, QuarterlyReview, TypeMisc)

RowChoices ==
    {RowMeeting, RowBirthday, RowGym, RowReview, RowBadDay, RowBadMonth,
     RowShort, RowNoTitle, RowCakeParty, RowLeap}

\* four events on one day
Stack == <<RowGym, RowGym, RowGym, RowGym>>

\* how many records AddRow may append
MaxRows == 2

InitialTables == {<<>>, Stack}
GateTables == {<<>>, <<RowBirthday>>, <<RowShort>>, <<RowNoTitle>>, <<RowCakeParty>>}
LayoutTables == {<<>>, <<RowBirthday, RowReview>>, Stack \o <<RowGym, RowMeeting>>}

Years == 2023..2026

\* what the user may type at the prompt, stripped and lowered
Responses == {"y", "", "n"}

----------------------------------------------------------------------------
(* The run *)

Fresh ==
    /\ start_day = arg_start_day
    /\ response = "unasked"
    /\ pc = "start"
    /\ error = ""
    /\ month_days = <<>>
    /\ all_events = EmptyMap
    /\ cell = 0
    /\ canvas = <<0, 0>>
    /\ prims = <<>>

\* event tables of every shape, one month, no gate in the way
Init ==
    /\ annual \in BOOLEAN
    /\ year = 2023
    /\ month = IF annual THEN 0 ELSE 2
    /\ arg_start_day = 6
    /\ show_day_names = TRUE
    /\ overwrite = TRUE
    /\ outFile = "absent"
    /\ eventsFile = "ok"
    /\ emojiFile = "ok"
    /\ rows \in InitialTables
    /\ Fresh

\* the records of the event table are what the user put there
AddRow ==
    /\ pc = "start"
    /\ Len(rows) < MaxRows + (IF StartsWith(rows, Stack) THEN Len(Stack) ELSE 0)
    /\ \E r \in RowChoices : rows' = Append(rows, r)
    /\ UNCHANGED <<annual, year, month, arg_start_day, start_day, show_day_names,
                   overwrite, outFile, response, eventsFile, emojiFile, pc, error,
                   month_days, all_events, cell, canvas, prims>>

\* a slip: the answer is read and the run goes on whatever it is
confirm_overwrite_no_exit(next) ==
    IF outFile # "absent" /\ ~overwrite
    THEN \E r \in Responses :
            /\ response' = r
            /\ pc' = next
    ELSE /\ response' = response
         /\ pc' = next

\* confirm_overwrite(file_path, overwrite); exit(0) on any other answer
confirm_overwrite(next) ==
    IF outFile # "absent" /\ ~overwrite
    THEN \E r \in Responses :
            /\ response' = r
            /\ pc' = IF r \in {"y", "yes", ""} THEN next ELSE "cancelled"
    ELSE /\ response' = response
         /\ pc' = next

\* generate_calendar_svg, lines 253-271
LoadSingle ==
    /\ ~annual /\ pc = "start"
    /\ start_day' = IF start_day = 0 THEN 6 ELSE start_day
    /\ month_days' = MonthDaysCalendar(year, month, start_day')
    /\ LET r == load_events(month, eventsFile, rows, emojiFile, EmojiTable)
       IN  /\ error' = r.error
           /\ all_events' = IF r.error = "" THEN (month :> r.events) ELSE all_events
           /\ pc' = IF r.error = "" THEN "loaded" ELSE "aborted"
    /\ UNCHANGED <<annual, year, month, arg_start_day, show_day_names, overwrite,
                   outFile, response, eventsFile, rows, emojiFile, cell, canvas, prims>>

\* generate_calendar_svg, lines 273-298
MetricsSingle ==
    /\ ~annual /\ pc = "loaded"
    /\ error' = MetricsErrorSingle(all_events[month])
    /\ cell' = IF error' = "" THEN SingleCellSize(all_events[month]) ELSE cell
    /\ pc' = IF error' = "" THEN "measured" ELSE "aborted"
    /\ UNCHANGED <<annual, year, month, arg_start_day, start_day, show_day_names,
                   overwrite, outFile, response, eventsFile, rows, emojiFile,
                   month_days, all_events, canvas, prims>>

\* generate_calendar_svg, lines 300-304
ConfirmSingle ==
    /\ ~annual /\ pc = "measured"
    /\ confirm_overwrite("confirmed")
    /\ UNCHANGED <<annual, year, month, arg_start_day, start_day, show_day_names,
                   overwrite, outFile, eventsFile, rows, emojiFile, error,
                   month_days, all_events, cell, canvas, prims>>

\* generate_calendar_svg, lines 306-316
DrawSingle ==
    /\ ~annual /\ pc = "confirmed"
    /\ canvas' = <<SingleWidth(cell), SingleHeight(cell, Len(month_days), show_day_names)>>
    /\ error' = GridErrorSingle(month_days, all_events[month])
    /\ prims' = IF error' = ""
                THEN RenderSingle(year, month, month_days, start_day, show_day_names,
                                  cell, all_events[month])
                ELSE prims
    /\ pc' = IF error' = "" THEN "drawn" ELSE "aborted"
    /\ UNCHANGED <<annual, year, month, arg_start_day, start_day, show_day_names,
                   overwrite, outFile, response, eventsFile, rows, emojiFile,
                   month_days, all_events, cell>>

\* generate_annual_calendar_svg, lines 336-339
ConfirmAnnual ==
    /\ annual /\ pc = "start"
    /\ confirm_overwrite("confirmed")
    /\ UNCHANGED <<annual, year, month, arg_start_day, start_day, show_day_names,
                   overwrite, outFile, eventsFile, rows, emojiFile, error,
                   month_days, all_events, cell, canvas, prims>>

\* generate_annual_calendar_svg, lines 341-352: the twelve loads, in order
LoadAnnual ==
    /\ annual /\ pc = "confirmed"
    /\ start_day' = ANNUAL_START_DAY
    /\ LET r == [m \in 1..12 |-> load_events(m, eventsFile, rows, emojiFile, EmojiTable)]
           failed == {m \in 1..12 : r[m].error # ""}
       IN  /\ error' = IF failed = {} THEN ""
                       ELSE r[CHOOSE m \in failed : \A n \in failed : m <= n].error
           /\ all_events' = IF failed = {} THEN [m \in 1..12 |-> r[m].events]
                            ELSE all_events
           /\ pc' = IF failed = {} THEN "loaded" ELSE "aborted"
    /\ UNCHANGED <<annual, year, month, arg_start_day, show_day_names, overwrite,
                   outFile, response, eventsFile, rows, emojiFile, month_days,
                   cell, canvas, prims>>

\* generate_annual_calendar_svg, lines 354-364
MetricsAnnual ==
    /\ annual /\ pc = "loaded"
    /\ error' = MetricsErrorAnnual(all_events)
    /\ cell' = IF error' = "" THEN AnnualCellSize(all_events) ELSE cell
    /\ pc' = IF error' = "" THEN "measured" ELSE "aborted"
    /\ UNCHANGED <<annual, year, month, arg_start_day, start_day, show_day_names,
                   overwrite, outFile, response, eventsFile, rows, emojiFile,
                   month_days, all_events, canvas, prims>>

\* generate_annual_calendar_svg, lines 366-384
DrawAnnual ==
    /\ annual /\ pc = "measured"
    /\ canvas' = <<SvgWidth(cell), SvgHeight(cell)>>
    /\ prims' = RenderAnnual(year, show_day_names, cell, all_events)
    /\ pc' = "drawn"
    /\ UNCHANGED <<annual, year, month, arg_start_day, start_day, show_day_names,
                   overwrite, outFile, response, eventsFile, rows, emojiFile, error,
                   month_days, all_events, cell>>

\* dwg.save(), lines 319 and 387
Save ==
    /\ pc = "drawn"
    /\ outFile' = "new"
    /\ pc' = "saved"
    /\ UNCHANGED <<annual, year, month, arg_start_day, start_day, show_day_names,
                   overwrite, response, eventsFile, rows, emojiFile, error,
                   month_days, all_events, cell, canvas, prims>>

Run ==
    \/ LoadSingle
    \/ MetricsSingle
    \/ ConfirmSingle
    \/ DrawSingle
    \/ ConfirmAnnual
    \/ LoadAnnual
    \/ MetricsAnnual
    \/ DrawAnnual
    \/ Save

Next == AddRow \/ Run

Spec == Init /\ [][Next]_vars

\* every gate of a run, over a few event tables
InitGate ==
    /\ annual \in BOOLEAN
    /\ year = 2024
    /\ month = IF annual THEN 0 ELSE 2
    /\ arg_start_day = 6
    /\ show_day_names = FALSE
    /\ overwrite \in BOOLEAN
    /\ outFile \in {"absent", "old"}
    /\ eventsFile \in {"missing", "nocols", "ok"}
    /\ emojiFile \in {"missing", "nocols", "ok"}
    /\ rows \in GateTables
    /\ Fresh

SpecGate == InitGate /\ [][Run]_vars

\* every month of some years under every starting weekday
InitLayout ==
    /\ annual \in BOOLEAN
    /\ year \in Years
    /\ month \in IF annual THEN {0} ELSE 1..12
    /\ arg_start_day \in IF annual THEN {6} ELSE 0..6
    /\ show_day_names \in BOOLEAN
    /\ overwrite = FALSE
    /\ outFile = "absent"
    /\ eventsFile = "ok"
    /\ emojiFile = "ok"
    /\ rows \in LayoutTables
    /\ Fresh

SpecLayout == InitLayout /\ [][Run]_vars

----------------------------------------------------------------------------
(* What a run would compute from an event table t, in the mode of this run *)

ScopeMonths == IF annual THEN 1..12 ELSE {month}

\* the twelve loads (or the one) of a run on t, each made once
LoadedFrom(t) ==
    [m \in ScopeMonths |-> load_events(m, eventsFile, t, emojiFile, EmojiTable)] @@ EmptyMap

\* the cell size the run on t computes, NoCell when an exception ends it first
NoCell == 0 - 1
CellSizeFrom(t) ==
    LET loaded == LoadedFrom(t)
    IN  IF \E m \in ScopeMonths : loaded[m].error # "" THEN NoCell
        ELSE LET index == [m \in ScopeMonths |-> loaded[m].events]
             IN  IF annual
                 THEN (IF MetricsErrorAnnual(index) # "" THEN NoCell
                       ELSE AnnualCellSize(index))
                 ELSE (IF MetricsErrorSingle(index[month]) # "" THEN NoCell
                       ELSE SingleCellSize(index[month]))

Drawn == pc \in {"drawn", "saved"}

----------------------------------------------------------------------------
(* C1 *)

\* C1: in annual mode the computed cell size equals the maximum of the twelve
\* cell sizes single-month generation computes for months 1..12 from the same
\* event table, and so is never less than any of them.
C1_AnnualIsMaxOfMonths ==
    (annual /\ pc = "measured") =>
        cell = SetMax({SingleCellSize(all_events[m]) : m \in 1..12})

----------------------------------------------------------------------------
(* C2 *)

----------------------------------------------------------------------------
(* C3 *)

\* the slot (1..7) of day d in the WeekMatrix, 0 when the day is missing
SlotOf(days, d) ==
    IF \E w \in 1..Len(days), i \in 1..7 : days[w][i] = d
    THEN (CHOOSE wi \in (1..Len(days)) \X (1..7) : days[wi[1]][wi[2]] = d)[2]
    ELSE 0

\* C3: single-month generation lays the month out with the caller's starting
\* weekday, whichever of 0..6 it is: day d sits in column (weekday(d) -
\* firstWeekday) mod 7; for February 2024 with firstWeekday 0 there are 5
\* weeks, day 29 is present and day 1 is in column 3.
C3_CallerStartDay ==
    (~annual /\ pc # "start") =>
        /\ \A d \in 1..DaysInMonth(year, month) :
              SlotOf(month_days, d) = ((Weekday(year, month, d) - arg_start_day) % 7) + 1
        /\ (year = 2024 /\ month = 2 /\ arg_start_day = 0) =>
              /\ Len(month_days) = 5
              /\ SlotOf(month_days, 29) # 0
              /\ SlotOf(month_days, 1) = 3 + 1

----------------------------------------------------------------------------
(* C4 *)

\* C4: whenever the weekday header is shown, in single-month mode and in
\* every tile of annual mode, the label at column c names weekday (c +
\* firstWeekday) mod 7, firstWeekday being the one the grid's WeekMatrix was
\* built with, and exactly the cells of the columns with (c + firstWeekday)
\* mod 7 = 6 have the orange background.
C4_HeaderRotated ==
    (Drawn /\ show_day_names) =>
        \A k \in 1..Len(prims) :
            LET p == prims[k]
            IN  /\ p.role = "header" => p.text = DayNames[((p.col + start_day) % 7) + 1]
                /\ p.role = "rect" => (p.fill = "orange" <=> (p.col + start_day) % 7 = 6)

----------------------------------------------------------------------------
(* C5 *)

\* a record with every required value, numbers for month and day, and a day
\* that month has in some year
WellFormed(r) ==
    /\ r.month # None /\ r.day # None /\ r.title # None /\ r.type # None
    /\ IntOk(r.month) /\ IntOk(r.day)
    /\ IntVal(r.month) \in 1..12
    /\ \E y \in {2023, 2024} : IntVal(r.day) \in 1..DaysInMonth(y, IntVal(r.month))

\* the well-formed records of month m and day d, in file order
RecordsOf(m, d) ==
    SelectSeq(rows, LAMBDA r : WellFormed(r) /\ IntVal(r.month) = m /\ IntVal(r.day) = d)

\* an exception ended the run inside load_events
LoadAborted == pc = "aborted" /\ DOMAIN all_events = {}

\* C5: with the required columns present, no malformed record (bad date,
\* missing value) aborts the load: it is skipped, and the index of a month
\* holds exactly the well-formed records of that month, day by day.
C5_LoadTolerant ==
    (eventsFile = "ok" /\ emojiFile # "nocols") =>
        /\ ~LoadAborted
        /\ \A m \in DOMAIN all_events :
              /\ \A d \in DOMAIN all_events[m] : Len(all_events[m][d]) = Len(RecordsOf(m, d))
              /\ \A d \in 1..31 : RecordsOf(m, d) # <<>> => d \in DOMAIN all_events[m]
              /\ \A d \in DOMAIN all_events[m] : None \notin {all_events[m][d][k] : k \in 1..Len(all_events[m][d])}

----------------------------------------------------------------------------
(* C6 *)

Accepting == {"y", "yes", ""}

\* C6: the output is serialised only at the end of a run that passed every
\* gate.  A declined prompt ends the run with the existing file untouched, a
\* table without its required columns never reaches serialisation, the
\* prompt is put exactly when the file exists and overwrite is not set, and
\* with overwrite set the run is never cancelled.
C6_SaveOnlyAfterGates ==
    /\ outFile = "new" =>
          /\ pc = "saved"
          /\ response \in {"unasked"} \cup Accepting
          /\ eventsFile # "nocols" /\ emojiFile # "nocols"
          /\ error = ""
    /\ response \notin ({"unasked"} \cup Accepting) => (pc = "cancelled" /\ outFile = "old")
    /\ pc \in {"cancelled", "aborted"} => outFile \in {"absent", "old"}
    /\ (eventsFile = "nocols" \/ emojiFile = "nocols") =>
          pc \in {"start", "confirmed", "cancelled", "aborted"}
    /\ (pc = "drawn" /\ outFile = "old" /\ ~overwrite) => response \in Accepting
    /\ overwrite => (response = "unasked" /\ pc # "cancelled")
    /\ pc = "cancelled" => (~overwrite /\ prims = <<>>)

\* the user declined to overwrite an existing file
C6_Witness == pc = "cancelled" /\ outFile = "old" /\ response = "n"

----------------------------------------------------------------------------
(* C7 *)

\* the decoration table's prefix for a category, <<>> when it has none
DecorationOf(type) ==
    LET table == LoadCsv(emojiFile, EmojiTable)
        hits == {i \in 1..Len(table) : Lower(Strip(table[i].type)) = Lower(Strip(type))}
    IN  IF hits = {} THEN <<>> ELSE Strip(table[SetMax(hits)].emoji)

TextsOf(ps) == [k \in 1..Len(ps) |-> ps[k].text]

TitlePrims == SelectSeq(prims, LAMBDA p : p.role = "title")
EventPrims == SelectSeq(prims, LAMBDA p : p.role \in {"emoji", "title"})

\* C7: the title primitive of an event whose category the decoration table
\* maps (case-insensitively) to prefix e reads e + " " + title, that of an
\* event whose category the table lacks reads the bare title, and no error
\* occurs.
C7_DecoratedTitle ==
    /\ Drawn =>
          \A m \in ScopeMonths, d \in 1..31 :
              d <= DaysInMonth(year, m) =>
                  LET recs == RecordsOf(m, d)
                  IN  TextsOf(SelectSeq(TitlePrims, LAMBDA p : p.month = m /\ p.day = d))
                        = [k \in 1..Len(recs) |->
                              IF DecorationOf(recs[k].type) # <<>>
                              THEN DecorationOf(recs[k].type) \o <<" ">> \o recs[k].title
                              ELSE recs[k].title]
    /\ (\A i \in 1..Len(rows) : WellFormed(rows[i])) => pc # "aborted"

----------------------------------------------------------------------------
(* C8 *)

\* C8: within one render pass every day-cell rectangle is the same square,
\* cellSize - 10 on each side, whatever events the day has.
C8_UniformSquareCells ==
    Drawn => \A k \in 1..Len(prims) :
                prims[k].role = "rect" => (prims[k].w = cell - 10 /\ prims[k].h = cell - 10)

----------------------------------------------------------------------------
(* C9 *)

TileX(m) == 20 + ((m - 1) % 3) * (7 * cell + 10)
TileY(m) == 20 + ((m - 1) \div 3) * (6 * cell + 100)

\* C9: in annual mode month m is placed at column (m-1) mod 3, row (m-1) div
\* 3, every tile is 7*cellSize wide and 6*cellSize + 100 tall, every day-cell
\* rectangle lies inside the tile of its month and inside the canvas, and the
\* tiles of two months do not intersect.
C9_TilesDisjoint ==
    (annual /\ Drawn) =>
        /\ \A k \in 1..Len(prims) :
              LET p == prims[k]
              IN  p.role = "rect" =>
                    /\ TileX(p.month) <= p.x /\ p.x + p.w <= TileX(p.month) + 7 * cell
                    /\ TileY(p.month) <= p.y /\ p.y + p.h <= TileY(p.month) + 6 * cell + 100
                    /\ p.w > 0 /\ p.h > 0
        /\ \A m \in 1..12 :
              /\ TileX(m) >= 0 /\ TileX(m) + 7 * cell <= canvas[1]
              /\ TileY(m) >= 0 /\ TileY(m) + 6 * cell + 100 <= canvas[2]
              /\ \A n \in 1..12 :
                    n # m => \/ TileX(m) + 7 * cell <= TileX(n)
                             \/ TileX(n) + 7 * cell <= TileX(m)
                             \/ TileY(m) + 6 * cell + 100 <= TileY(n)
                             \/ TileY(n) + 6 * cell + 100 <= TileY(m)

\* a drawn year with a month of six week rows, its last row in the tile's
\* sixth row, under a cell size the events enlarged
C9_Witness ==
    /\ annual /\ Drawn /\ cell > 100
    /\ \E k \in 1..Len(prims) :
          /\ prims[k].role = "rect"
          /\ prims[k].y >= TileY(prims[k].month) + 100 + 5 * cell

----------------------------------------------------------------------------
(* C10 *)

\* the texts an event is to be drawn with: prefix and text, or the title
ExpectedTexts(r, k) ==
    IF DecorationOf(r.type) # <<>>
    THEN << [text |-> DecorationOf(r.type), k |-> k], [text |-> r.title, k |-> k] >>
    ELSE << [text |-> r.title, k |-> k] >>

\* C10: an event whose title carries a prefix of the decoration table is
\* drawn as two texts on one baseline, prefix first, then the remaining text;
\* an event without prefix as one text; the events of a day in insertion
\* order, each one fixed-height row below the previous; in both modes.
C10_PrefixAndText ==
    Drawn =>
        \E step \in 1..50 :
            \A m \in ScopeMonths, d \in 1..31 :
                d <= DaysInMonth(year, m) =>
                    LET recs == RecordsOf(m, d)
                        want == Flatten([k \in 1..Len(recs) |-> ExpectedTexts(recs[k], k)])
                        have == SelectSeq(EventPrims, LAMBDA p : p.month = m /\ p.day = d)
                    IN  /\ Len(have) = Len(want)
                        /\ \A j \in 1..Len(want) :
                              /\ have[j].text = want[j].text
                              /\ have[j].y = have[1].y + (want[j].k - 1) * step

----------------------------------------------------------------------------
(* C11 *)

\* the background rectangle of day d of month m
CellRects(m, d) ==
    SelectSeq(prims, LAMBDA p : p.role = "rect" /\ p.month = m /\ p.day = d)

\* C11: the computed cell height is sufficient for the stacked events: the
\* baseline of every event text of a day, the last one included, is not below
\* the bottom edge of that day's background rectangle (y + cell - 5), so no
\* event text reaches into the week row below, in both modes.
C11_EventsFitCell ==
    Drawn =>
        \A k \in 1..Len(EventPrims) :
            LET q == EventPrims[k]
                r == CellRects(q.month, q.day)
            IN  /\ Len(r) = 1
                /\ q.y <= r[1].y + r[1].h

----------------------------------------------------------------------------
(* C12 *)

\* C12: every event the index holds for (year, month) is attached to a day of
\* that month of that year (1 <= day <= DaysInMonth(year, month)); in
\* particular an event dated February 29 is not indexed for a non-leap year,
\* so every indexed event is drawn in exactly one day cell.
C12_IndexedDaysExist ==
    /\ \A m \in DOMAIN all_events : \A d \in DOMAIN all_events[m] :
          all_events[m][d] # <<>> => (1 <= d /\ d <= DaysInMonth(year, m))
    /\ Drawn =>
          \A m \in ScopeMonths : \A d \in DOMAIN all_events[m] :
              Len(SelectSeq(TitlePrims, LAMBDA p : p.month = m /\ p.day = d))
                  = Len(all_events[m][d])

====
